---- MODULE Spec2Model ----
(***************************************************************************)
(* The TAIC user-interrupt controller driver                               *)
(* (drivers/irqchip/irq-riscv-taic.c) and the receiver synchronisation     *)
(* routines of arch/riscv/kernel/uintr.c, as a state machine.              *)
(*                                                                         *)
(* Four specifications share the variables:                                *)
(*   SpecReg  boot-time discovery: a sequence of __taic_init calls over    *)
(*            platform nodes drawn from Nodes;                             *)
(*   Spec     run time: the handler tables are those left by one of the    *)
(*            BootConfigs, and tasks on cores go through uintr_enable,     *)
(*            the trap-exit hook (uintr_set), the trap-entry hook          *)
(*            (uintr_clear) and context switches;                          *)
(*   SpecApi  the entry points called one at a time, with what each call   *)
(*            returned and wrote on record;                                *)
(*   SpecStep run time with uintr_set executed statement by statement,     *)
(*            the hardware latching a pending bit in between.              *)
(*                                                                         *)
(* A 64-bit local-queue index is held as its two 32-bit halves             *)
(* [hi, lo]: lq_idx >> 32 is .hi and lq_idx & 0xffffffff is .lo.  The      *)
(* halves stay far below 2^32 / LQ_SIZE, so no product of the offset       *)
(* computation wraps.  A CSR is the set of its bit positions that are 1.   *)
(***************************************************************************)
EXTENDS Integers, Sequences, FiniteSets, TLC

\* ------------------------------------------------------------------ bounds
NCPU == 2
NTASK == 2
MaxNodes == 2
MaxEntries == 2
MaxHigh == 1
MaxLow == 3
MaxCalls == 2

\* ------------------------------------------------------- program constants
DEFAULT_GQ_NUM == 4
DEFAULT_LQ_NUM == 8
LQ_OFFSET == 4096
LQ_SIZE == 4096
CPUID_OFFSET == 56
FREE_OFFSET == 8
NOWHERE == -1
IRQ_U_SOFT == 0
IRQ_S_SOFT == 1
IRQ_S_EXT == 9
USIE_BIT == 0
UTIE_BIT == 4
ENOMEM == 12
EIO == 5
EINVAL == 22
NOPROP == -1
NOCPU == -1
NULL == 0

Cores == 0 .. (NCPU - 1)
Tasks == 1 .. NTASK
IE_USIE == {USIE_BIT}

VARIABLES
    taic_uhandlers,
    taic_shandlers,
    privs,
    mmio,
    thread,
    cur,
    mode,
    csr,
    last,
    frame

vars == <<taic_uhandlers, taic_shandlers, privs, mmio, thread, cur, mode, csr, last, frame>>

\* ------------------------------------------------------------ registration
NoHandler == [present |-> FALSE, priv |-> NULL]

\* One interrupt-routing entry of a node, as the loop of __taic_init sees it.
Entry(p, cause, h, cpu) == [parse_ok |-> p, cause |-> cause, hart_ok |-> h, cpu |-> cpu]

EntryKinds ==
    {Entry(FALSE, IRQ_U_SOFT, TRUE, 0), Entry(TRUE, IRQ_S_EXT, TRUE, 0),
     Entry(TRUE, IRQ_U_SOFT, FALSE, 0), Entry(TRUE, IRQ_S_SOFT, TRUE, NOCPU)}
    \cup {Entry(TRUE, cause, TRUE, c) : cause \in {IRQ_U_SOFT, IRQ_S_SOFT}, c \in Cores}

EntryLists == UNION {[1 .. n -> EntryKinds] : n \in 0 .. MaxEntries}

PropVals == {NOPROP, 2}

\* A platform node: whether kzalloc, of_address_to_resource and ioremap
\* succeed for it, its gq-num / lq-num properties and its routing entries.
Nodes ==
    [alloc_ok : {TRUE}, res_ok : {TRUE}, map_ok : {TRUE},
     gq : PropVals, lq : PropVals, irqs : EntryLists]
    \cup [alloc_ok : {FALSE}, res_ok : {TRUE}, map_ok : {TRUE},
          gq : {NOPROP}, lq : {NOPROP}, irqs : EntryLists]
    \cup [alloc_ok : {TRUE}, res_ok : {FALSE}, map_ok : {TRUE},
          gq : {NOPROP}, lq : {NOPROP}, irqs : EntryLists]
    \cup [alloc_ok : {TRUE}, res_ok : {TRUE}, map_ok : {FALSE},
          gq : {NOPROP}, lq : {NOPROP}, irqs : EntryLists]

\* Mutant: the fallback to the default is missing, the kzalloc'ed 0 stays.
ReadPropU8_NoDefault(prop, dflt) == IF prop = NOPROP THEN 0 ELSE prop

\* of_property_read_u8 with the fallback of lines 67-76.
ReadPropU8(prop, dflt) == IF prop = NOPROP THEN dflt ELSE prop

\* Mutant: the test of the cause (line 95) is missing, so an entry of any
\* other cause is handled as a supervisor-software entry.
EntrySkipped_NoCauseTest(e) ==
    \/ ~e.parse_ok
    \/ ~e.hart_ok
    \/ e.cpu < 0

\* The entry is skipped by one of the four "continue"s of lines 90-109.
EntrySkipped(e) ==
    \/ ~e.parse_ok
    \/ (e.cause # IRQ_U_SOFT /\ e.cause # IRQ_S_SOFT)
    \/ ~e.hart_ok
    \/ e.cpu < 0

\* Mutant: the "handler already present" test is missing, a later claim
\* overwrites the slot.
TaicInitEntry_Overwrite(st, e, i, id) ==
    IF EntrySkipped(e) THEN st
    ELSE IF e.cause = IRQ_U_SOFT
    THEN [st EXCEPT !.umask = @ \cup {e.cpu},
                    !.uh[e.cpu] = [present |-> TRUE, priv |-> id]]
    ELSE [st EXCEPT !.smask = @ \cup {e.cpu},
                    !.sh[e.cpu] = [present |-> TRUE, priv |-> id]]

\* Mutant: cpumask_set_cpu is missing, the core sets stay empty.
TaicInitEntry_NoMask(st, e, i, id) ==
    IF EntrySkipped(e) THEN st
    ELSE IF e.cause = IRQ_U_SOFT
    THEN IF st.uh[e.cpu].present
         THEN [st EXCEPT !.conflicts = @ \cup {i}]
         ELSE [st EXCEPT !.uh[e.cpu] = [present |-> TRUE, priv |-> id]]
    ELSE IF st.sh[e.cpu].present
         THEN [st EXCEPT !.conflicts = @ \cup {i}]
         ELSE [st EXCEPT !.sh[e.cpu] = [present |-> TRUE, priv |-> id]]

\* One iteration of the loop (lines 85-125) on the loop state
\* st = [uh, sh, umask, smask, conflicts] for instance id, entry number i.
TaicInitEntry(st, e, i, id) ==
    IF EntrySkipped(e) THEN st
    ELSE IF e.cause = IRQ_U_SOFT
    THEN LET st1 == [st EXCEPT !.umask = @ \cup {e.cpu}]
         IN  IF st.uh[e.cpu].present
             THEN [st1 EXCEPT !.conflicts = @ \cup {i}]
             ELSE [st1 EXCEPT !.uh[e.cpu] = [present |-> TRUE, priv |-> id]]
    ELSE LET st1 == [st EXCEPT !.smask = @ \cup {e.cpu}]
         IN  IF st.sh[e.cpu].present
             THEN [st1 EXCEPT !.conflicts = @ \cup {i}]
             ELSE [st1 EXCEPT !.sh[e.cpu] = [present |-> TRUE, priv |-> id]]

\* Mutant: the loop stops at the first conflict ("break" for "continue").
RECURSIVE TaicInitLoop_StopAtConflict(_, _, _, _)
TaicInitLoop_StopAtConflict(st, irqs, i, id) ==
    IF i > Len(irqs) \/ st.conflicts # {} THEN st
    ELSE TaicInitLoop_StopAtConflict(TaicInitEntry(st, irqs[i], i, id), irqs, i + 1, id)

RECURSIVE TaicInitLoop(_, _, _, _)
TaicInitLoop(st, irqs, i, id) ==
    IF i > Len(irqs) THEN st
    ELSE TaicInitLoop(TaicInitEntry(st, irqs[i], i, id), irqs, i + 1, id)

\* The priv of an instance that was freed (or never allocated).
FreedPriv == [live |-> FALSE, mapped |-> FALSE, lq_num |-> 0, gq_num |-> 0,
              umask |-> {}, smask |-> {}]

\* Mutant: the zero-entries test comes after the loop and a failed ioremap
\* is only noticed at the end, so a failing call has already claimed slots.
TaicInit_LateChecks(uh, sh, node, id) ==
    IF ~node.alloc_ok
    THEN [uh |-> uh, sh |-> sh, priv |-> FreedPriv, ret |-> -ENOMEM, conflicts |-> {}]
    ELSE IF ~node.res_ok
    THEN [uh |-> uh, sh |-> sh, priv |-> FreedPriv, ret |-> -EIO, conflicts |-> {}]
    ELSE LET st == TaicInitLoop([uh |-> uh, sh |-> sh, umask |-> {}, smask |-> {},
                                 conflicts |-> {}], node.irqs, 1, id)
         IN  IF ~node.map_ok \/ Len(node.irqs) = 0
             THEN [uh |-> st.uh, sh |-> st.sh, priv |-> FreedPriv, ret |-> -EIO,
                   conflicts |-> st.conflicts]
             ELSE [uh |-> st.uh, sh |-> st.sh,
                   priv |-> [live |-> TRUE, mapped |-> TRUE,
                             lq_num |-> ReadPropU8(node.lq, DEFAULT_LQ_NUM),
                             gq_num |-> ReadPropU8(node.gq, DEFAULT_GQ_NUM),
                             umask |-> st.umask, smask |-> st.smask],
                   ret |-> 0, conflicts |-> st.conflicts]

\* __taic_init as a function of the handler tables and the node: the new
\* tables, the priv it leaves behind and its return value.
TaicInit(uh, sh, node, id) ==
    IF ~node.alloc_ok
    THEN [uh |-> uh, sh |-> sh, priv |-> FreedPriv, ret |-> -ENOMEM, conflicts |-> {}]
    ELSE IF ~node.res_ok \/ ~node.map_ok
    THEN [uh |-> uh, sh |-> sh, priv |-> FreedPriv, ret |-> -EIO, conflicts |-> {}]
    ELSE IF Len(node.irqs) = 0
    THEN [uh |-> uh, sh |-> sh, priv |-> FreedPriv, ret |-> -EINVAL, conflicts |-> {}]
    ELSE LET st == TaicInitLoop([uh |-> uh, sh |-> sh, umask |-> {}, smask |-> {},
                                 conflicts |-> {}], node.irqs, 1, id)
         IN  [uh |-> st.uh, sh |-> st.sh,
              priv |-> [live |-> TRUE, mapped |-> TRUE,
                        lq_num |-> ReadPropU8(node.lq, DEFAULT_LQ_NUM),
                        gq_num |-> ReadPropU8(node.gq, DEFAULT_GQ_NUM),
                        umask |-> st.umask, smask |-> st.smask],
              ret |-> 0, conflicts |-> st.conflicts]

NoOp == [op |-> "none"]

\* No uintr_set is in progress.
NoFrame == [k |-> 0]

InitCommon ==
    /\ thread = [t \in Tasks |-> [is_uintr_enabled |-> FALSE, lq_idx |-> [hi |-> 0, lo |-> 0]]]
    /\ cur = [c \in Cores |-> NULL]
    /\ mode = [t \in Tasks |-> "kernel"]
    /\ csr = [c \in Cores |-> [sideleg |-> {}, uie |-> {}, uip |-> {},
                               uepc |-> 0, utvec |-> 0, uscratch |-> 0]]
    /\ last = NoOp
    /\ frame = NoFrame

InitReg ==
    /\ taic_uhandlers = [c \in Cores |-> NoHandler]
    /\ taic_shandlers = [c \in Cores |-> NoHandler]
    /\ privs = <<>>
    /\ mmio = <<>>
    /\ InitCommon

\* IRQCHIP_DECLARE: the irqchip core calls __taic_init once per matching node.
Register(node) ==
    /\ Len(privs) < MaxNodes
    /\ LET id == Len(privs) + 1
           r == TaicInit(taic_uhandlers, taic_shandlers, node, id)
       IN  /\ taic_uhandlers' = r.uh
           /\ taic_shandlers' = r.sh
           /\ privs' = Append(privs, r.priv)
           /\ mmio' = Append(mmio, <<>>)
           /\ last' = [op |-> "init", node |-> node, inst |-> id, ret |-> r.ret,
                       conflicts |-> r.conflicts]
    /\ UNCHANGED <<thread, cur, mode, csr, frame>>

NextReg == \E node \in Nodes : Register(node)

SpecReg == InitReg /\ [][NextReg]_vars

\* ------------------------------------------------- properties of registration
\* The handler slot a routing entry names, in tables uh / sh.
EntrySlot(uh, sh, e) == IF e.cause = IRQ_U_SOFT THEN uh[e.cpu] ELSE sh[e.cpu]

\* The node gets past kzalloc, the resource lookup, ioremap and of_irq_count.
NodeUsable(node) ==
    node.alloc_ok /\ node.res_ok /\ node.map_ok /\ Len(node.irqs) > 0

\* C3: a (core, level) handler slot is bound at most once: a slot that is
\* present keeps its present flag and its instance reference through every
\* later registration, and every entry of a later registration that names it
\* is reported as a conflict.
C3_SlotClaimedOnce ==
    [][/\ \A c \in Cores :
            /\ taic_uhandlers[c].present => taic_uhandlers'[c] = taic_uhandlers[c]
            /\ taic_shandlers[c].present => taic_shandlers'[c] = taic_shandlers[c]
       /\ (last'.op = "init" /\ NodeUsable(last'.node)) =>
            \A i \in 1 .. Len(last'.node.irqs) :
                LET e == last'.node.irqs[i]
                IN  (~EntrySkipped(e) /\ EntrySlot(taic_uhandlers, taic_shandlers, e).present)
                        => i \in last'.conflicts]_vars

\* C3 witness: a registration reported a conflict on a slot that an earlier
\* instance holds.
C3_Witness ==
    /\ last.op = "init"
    /\ \E i \in last.conflicts :
           LET h == EntrySlot(taic_uhandlers, taic_shandlers, last.node.irqs[i])
           IN  h.present /\ h.priv # last.inst

\* C8: a registration that fails returns a negative status, leaves its
\* instance released and unmapped and every handler slot as it was; no
\* handler slot ever references a released instance.
C8_FailedInitLeavesNoTrace ==
    [][/\ (last'.op = "init" /\ ~NodeUsable(last'.node)) =>
            /\ last'.ret < 0
            /\ ~privs'[last'.inst].live
            /\ ~privs'[last'.inst].mapped
            /\ taic_uhandlers' = taic_uhandlers
            /\ taic_shandlers' = taic_shandlers
       /\ \A c \in Cores :
            /\ taic_uhandlers'[c].present => privs'[taic_uhandlers'[c].priv].live
            /\ taic_shandlers'[c].present => privs'[taic_shandlers'[c].priv].live]_vars

\* C8 witness: a registration whose node names free slots failed on the
\* register window while another instance holds a slot.
C8_Witness ==
    /\ last.op = "init"
    /\ last.ret = -EIO
    /\ \E i \in 1 .. Len(last.node.irqs) :
           LET e == last.node.irqs[i]
           IN  ~EntrySkipped(e) /\ ~EntrySlot(taic_uhandlers, taic_shandlers, e).present
    /\ \E c \in Cores : taic_uhandlers[c].present

\* C9: a usable node without gq-num gives gq_num = 4, without lq-num gives
\* lq_num = 8; the registration returns 0 and its entries claim their slots.
C9_MissingPropsDefault ==
    (last.op = "init" /\ NodeUsable(last.node)) =>
        /\ last.ret = 0
        /\ privs[last.inst].live
        /\ last.node.gq = NOPROP => privs[last.inst].gq_num = 4
        /\ last.node.lq = NOPROP => privs[last.inst].lq_num = 8
        /\ last.node.gq # NOPROP => privs[last.inst].gq_num = last.node.gq
        /\ last.node.lq # NOPROP => privs[last.inst].lq_num = last.node.lq
        /\ \A i \in 1 .. Len(last.node.irqs) :
               LET e == last.node.irqs[i]
               IN  ~EntrySkipped(e) => EntrySlot(taic_uhandlers, taic_shandlers, e).present

\* C9 witness: a node with neither property registered and claimed a slot.
C9_Witness ==
    /\ last.op = "init"
    /\ last.node.gq = NOPROP
    /\ last.node.lq = NOPROP
    /\ last.ret = 0
    /\ \E c \in Cores : taic_uhandlers[c] = [present |-> TRUE, priv |-> last.inst]

\* C10: a registration that meets an entry for an already-claimed slot still
\* returns 0, and every later entry of it that names a slot free before the
\* call leaves that slot bound to the registering instance.
C10_ConflictDoesNotStopLoop ==
    [][(last'.op = "init" /\ NodeUsable(last'.node)) =>
          \A i \in 1 .. Len(last'.node.irqs) :
              LET e == last'.node.irqs[i]
              IN  (~EntrySkipped(e) /\ EntrySlot(taic_uhandlers, taic_shandlers, e).present)
                  => /\ last'.ret = 0
                     /\ \A j \in (i + 1) .. Len(last'.node.irqs) :
                            LET f == last'.node.irqs[j]
                            IN  (~EntrySkipped(f)
                                 /\ ~EntrySlot(taic_uhandlers, taic_shandlers, f).present)
                                => EntrySlot(taic_uhandlers', taic_shandlers', f)
                                       = [present |-> TRUE, priv |-> last'.inst]]_vars

\* C10 witness: after a reported conflict a later entry of the same
\* registration bound its slot to the registering instance.
C10_Witness ==
    /\ last.op = "init"
    /\ \E i \in last.conflicts : \E j \in (i + 1) .. Len(last.node.irqs) :
           /\ j \notin last.conflicts
           /\ ~EntrySkipped(last.node.irqs[j])
           /\ EntrySlot(taic_uhandlers, taic_shandlers, last.node.irqs[j])
                  = [present |-> TRUE, priv |-> last.inst]
           /\ EntrySlot(taic_uhandlers, taic_shandlers, last.node.irqs[i]).priv # last.inst

\* The cores named by the parsable entries of cause `cause` of a node.
CoresNamed(node, cause) ==
    {node.irqs[i].cpu : i \in {k \in 1 .. Len(node.irqs) :
                                  node.irqs[k].parse_ok /\ node.irqs[k].cause = cause}}

\* C17: a registration changes the user-level slot of a core only if it has
\* a user-software entry for that core, and the supervisor-level slot only
\* if it has a supervisor-software entry for it; its user core set holds
\* only cores of user-software entries, its supervisor core set only cores
\* of supervisor-software entries; entries of another cause change nothing.
C17_EntryTouchesOwnLevelOnly ==
    [][last'.op = "init" =>
          /\ \A c \in Cores :
                /\ taic_uhandlers'[c] # taic_uhandlers[c]
                       => c \in CoresNamed(last'.node, IRQ_U_SOFT)
                /\ taic_shandlers'[c] # taic_shandlers[c]
                       => c \in CoresNamed(last'.node, IRQ_S_SOFT)
          /\ privs'[last'.inst].umask \subseteq CoresNamed(last'.node, IRQ_U_SOFT)
          /\ privs'[last'.inst].smask \subseteq CoresNamed(last'.node, IRQ_S_SOFT)]_vars

\* C17 witness: a registration with an entry of another cause for core 0 and
\* a user-software entry for another core bound only that core's user-level
\* slot.
C17_Witness ==
    /\ last.op = "init"
    /\ last.ret = 0
    /\ \E i \in 1 .. Len(last.node.irqs) :
           /\ last.node.irqs[i].parse_ok
           /\ last.node.irqs[i].cause = IRQ_S_EXT
           /\ last.node.irqs[i].cpu = 0
    /\ ~taic_uhandlers[0].present
    /\ ~taic_shandlers[0].present
    /\ \E c \in Cores \ {0} :
           /\ taic_uhandlers[c] = [present |-> TRUE, priv |-> last.inst]
           /\ privs[last.inst].umask = {c}
    /\ privs[last.inst].smask = {}

\* C18 as stated: a core is in an instance's user-level (supervisor-level)
\* core set if and only if its user-level (supervisor-level) handler slot
\* is present and references that instance.
C18_AsStated ==
    \A i \in 1 .. Len(privs) : \A c \in Cores :
        privs[i].live =>
            /\ c \in privs[i].umask <=> taic_uhandlers[c] = [present |-> TRUE, priv |-> i]
            /\ c \in privs[i].smask <=> taic_shandlers[c] = [present |-> TRUE, priv |-> i]

\* C18 amended: a core whose slot references an instance is in that
\* instance's core set of that level; a core in an instance's core set has
\* its slot of that level present, referencing that instance or one
\* registered before it (the core is added before the conflict test).
C18_MaskCoversSlots ==
    \A i \in 1 .. Len(privs) : \A c \in Cores :
        privs[i].live =>
            /\ taic_uhandlers[c] = [present |-> TRUE, priv |-> i] => c \in privs[i].umask
            /\ taic_shandlers[c] = [present |-> TRUE, priv |-> i] => c \in privs[i].smask
            /\ c \in privs[i].umask
                   => (taic_uhandlers[c].present /\ taic_uhandlers[c].priv \in 1 .. i)
            /\ c \in privs[i].smask
                   => (taic_shandlers[c].present /\ taic_shandlers[c].priv \in 1 .. i)

\* C18 witness: after a conflict the registering instance's user core set
\* holds a core whose user-level slot references an earlier instance.
C18_Witness ==
    /\ last.op = "init"
    /\ last.ret = 0
    /\ \E c \in privs[last.inst].umask :
           taic_uhandlers[c].present /\ taic_uhandlers[c].priv < last.inst
    /\ \E c \in privs[last.inst].umask :
           taic_uhandlers[c] = [present |-> TRUE, priv |-> last.inst]

\* ------------------------------------------------ receiver ownership protocol
\* The platform descriptions the run-time specification boots from.
UNode(lq, irqs) == [alloc_ok |-> TRUE, res_ok |-> TRUE, map_ok |-> TRUE,
                    gq |-> NOPROP, lq |-> lq, irqs |-> irqs]

UEntry(cause, c) == Entry(TRUE, cause, TRUE, c)

BootConfigs ==
    { <<UNode(NOPROP, <<UEntry(IRQ_U_SOFT, 0), UEntry(IRQ_U_SOFT, 1)>>)>>,
      <<UNode(3, <<UEntry(IRQ_U_SOFT, 0), UEntry(IRQ_S_SOFT, 1)>>)>>,
      <<UNode(NOPROP, <<UEntry(IRQ_U_SOFT, 0)>>), UNode(3, <<UEntry(IRQ_U_SOFT, 1)>>)>> }

\* The tables and instances left by __taic_init over the nodes of a platform.
RECURSIVE BootAll(_, _, _)
BootAll(b, nodes, k) ==
    IF k > Len(nodes) THEN b
    ELSE LET r == TaicInit(b.uh, b.sh, nodes[k], k)
         IN  BootAll([uh |-> r.uh, sh |-> r.sh, privs |-> Append(b.privs, r.priv)],
                     nodes, k + 1)

\* The index values handed to uintr_enable and to the ownership calls.
LqIdx == [hi : 0 .. MaxHigh, lo : {0} \cup (3 .. MaxLow)]

\* lq_idx >> 32 and lq_idx & 0xffffffff on the two halves of the index.
IdxHigh(lq_idx) == lq_idx.hi

IdxLow(lq_idx) == lq_idx.lo

\* Mutant: the stride of the high half is the default capacity, not the
\* capacity of the instance.
TaicUlqOffset_DefaultLq(lq_idx, lq_num) ==
    LQ_OFFSET + (IdxHigh(lq_idx) * DEFAULT_LQ_NUM + IdxLow(lq_idx)) * LQ_SIZE + CPUID_OFFSET

\* Mutant: the high half of the index is ignored.
TaicUlqOffset_NoHigh(lq_idx, lq_num) ==
    LQ_OFFSET + IdxLow(lq_idx) * LQ_SIZE + CPUID_OFFSET

\* The byte offset added to priv->regs in taic_ulq_write_cpuid.
TaicUlqOffset(lq_idx, lq_num) ==
    LQ_OFFSET + (IdxHigh(lq_idx) * lq_num + IdxLow(lq_idx)) * LQ_SIZE + CPUID_OFFSET

\* writeq(val, regs + off) on the window of instance i.
Writeq(m, i, off, val) == [m EXCEPT ![i] = (off :> val) @@ @]

\* readq of the window of instance i; a register never written holds NOWHERE.
Readq(m, i, off) == IF off \in DOMAIN m[i] THEN m[i][off] ELSE NOWHERE

\* taic_ulq_write_cpuid on core c: return value, new windows, writes done.
TaicUlqWriteCpuid(c, lq_idx, hartid, m) ==
    LET handler == taic_uhandlers[c]
    IN  IF ~handler.present
        THEN [ret |-> -EINVAL, mmio |-> m, writes |-> <<>>]
        ELSE LET off == TaicUlqOffset(lq_idx, privs[handler.priv].lq_num)
             IN  [ret |-> 0, mmio |-> Writeq(m, handler.priv, off, hartid),
                  writes |-> <<[inst |-> handler.priv, off |-> off, val |-> hartid]>>]

\* Mutant: a core without a user-level slot falls back to its
\* supervisor-level slot.
TaicFreeLq_AnyHandler(c, lq_idx, m) ==
    LET handler == IF taic_uhandlers[c].present THEN taic_uhandlers[c]
                   ELSE taic_shandlers[c]
    IN  IF ~handler.present
        THEN [ret |-> -EINVAL, mmio |-> m, writes |-> <<>>]
        ELSE [ret |-> 0, mmio |-> Writeq(m, handler.priv, FREE_OFFSET, lq_idx),
              writes |-> <<[inst |-> handler.priv, off |-> FREE_OFFSET, val |-> lq_idx]>>]

\* taic_free_lq on core c.
TaicFreeLq(c, lq_idx, m) ==
    LET handler == taic_uhandlers[c]
    IN  IF ~handler.present
        THEN [ret |-> -EINVAL, mmio |-> m, writes |-> <<>>]
        ELSE [ret |-> 0, mmio |-> Writeq(m, handler.priv, FREE_OFFSET, lq_idx),
              writes |-> <<[inst |-> handler.priv, off |-> FREE_OFFSET, val |-> lq_idx]>>]

\* ------------------------------------------- context synchronisation routines
IsUintrEnabled(th) == th.is_uintr_enabled

\* Mutant: the early return for an enabled thread is missing.
UintrEnable_NoGuard(th, lq_idx) ==
    [thread |-> [is_uintr_enabled |-> TRUE, lq_idx |-> lq_idx], ret |-> 0]

\* The uintr_enable system call: the thread fields it leaves and its result.
UintrEnable(th, lq_idx) ==
    IF IsUintrEnabled(th) THEN [thread |-> th, ret |-> 0]
    ELSE [thread |-> [is_uintr_enabled |-> TRUE, lq_idx |-> lq_idx], ret |-> 0]

\* Mutant: trap entry does not withdraw the published owner.
UintrClear_NoPublish(c, th, m) == [ret |-> 0, mmio |-> m, writes |-> <<>>]

\* Mutant: the index is truncated to its low half.
UintrClear_LowHalf(c, th, m) ==
    IF ~IsUintrEnabled(th)
    THEN [ret |-> 0, mmio |-> m, writes |-> <<>>]
    ELSE TaicUlqWriteCpuid(c, [hi |-> 0, lo |-> IdxLow(th.lq_idx)], NOWHERE, m)

\* Mutant: trap entry publishes the core instead of the sentinel.
UintrClear_PublishCore(c, th, m) ==
    IF ~IsUintrEnabled(th)
    THEN [ret |-> 0, mmio |-> m, writes |-> <<>>]
    ELSE TaicUlqWriteCpuid(c, th.lq_idx, c, m)

\* Mutant: the test of the enabled flag is missing.
UintrClear_NoEnabledTest(c, th, m) == TaicUlqWriteCpuid(c, th.lq_idx, NOWHERE, m)

\* uintr_clear for thread th on core c.
UintrClear(c, th, m) ==
    IF ~IsUintrEnabled(th)
    THEN [ret |-> 0, mmio |-> m, writes |-> <<>>]
    ELSE TaicUlqWriteCpuid(c, th.lq_idx, NOWHERE, m)

\* Mutant: only the enable bit is cleared, a pending bit stays.
UintrSetDisabled_KeepPending(cs) == [cs EXCEPT !.uie = @ \ IE_USIE]

\* The CSRs uintr_set leaves for a thread that is not enabled (lines 58-62).
UintrSetDisabled(cs) == [cs EXCEPT !.uie = @ \ IE_USIE, !.uip = @ \ IE_USIE]

\* The CSRs uintr_set restores for an enabled thread (lines 65-75).
UintrSetRestore(cs, regs) ==
    [cs EXCEPT !.uie = regs.uie, !.uepc = regs.uepc, !.utvec = regs.utvec,
               !.uscratch = regs.uscratch, !.uip = regs.uip \cup cs.uip]

\* Mutant: the owner is not published before the registers are restored.
UintrSet_NoPublish(c, th, regs, cs, m) ==
    LET cs0 == [cs EXCEPT !.sideleg = @ \cup IE_USIE]
    IN  IF ~IsUintrEnabled(th)
        THEN [csr |-> UintrSetDisabled(cs0), ret |-> 0, mmio |-> m, writes |-> <<>>]
        ELSE [csr |-> UintrSetRestore(cs0, regs), ret |-> 0, mmio |-> m, writes |-> <<>>]

\* Mutant: a failed publish ends the routine before the registers are
\* restored.
UintrSet_ReturnOnError(c, th, regs, cs, m) ==
    LET cs0 == [cs EXCEPT !.sideleg = @ \cup IE_USIE]
        hartid == c
    IN  IF ~IsUintrEnabled(th)
        THEN [csr |-> UintrSetDisabled(cs0), ret |-> 0, mmio |-> m, writes |-> <<>>]
        ELSE LET w == TaicUlqWriteCpuid(c, th.lq_idx, hartid, m)
             IN  IF w.ret < 0
                 THEN [csr |-> cs0, ret |-> w.ret, mmio |-> w.mmio, writes |-> w.writes]
                 ELSE [csr |-> UintrSetRestore(cs0, regs), ret |-> w.ret,
                       mmio |-> w.mmio, writes |-> w.writes]

\* uintr_set for thread th on core c with saved registers regs.
UintrSet(c, th, regs, cs, m) ==
    LET cs0 == [cs EXCEPT !.sideleg = @ \cup IE_USIE]
        hartid == c
    IN  IF ~IsUintrEnabled(th)
        THEN [csr |-> UintrSetDisabled(cs0), ret |-> 0, mmio |-> m, writes |-> <<>>]
        ELSE LET w == TaicUlqWriteCpuid(c, th.lq_idx, hartid, m)
             IN  [csr |-> UintrSetRestore(cs0, regs), ret |-> w.ret, mmio |-> w.mmio,
                  writes |-> w.writes]

PtRegs(uie, uip, uepc, utvec, uscratch) ==
    [uie |-> uie, uip |-> uip, uepc |-> uepc, utvec |-> utvec, uscratch |-> uscratch]

\* The saved-register records the trap-return path hands to uintr_set.
PtRegsSet ==
    {PtRegs({USIE_BIT, UTIE_BIT}, {USIE_BIT}, 1, 2, 3), PtRegs({}, {}, 4, 5, 6)}

\* ------------------------------------------------------------------ run time
Init ==
    /\ \E cfg \in BootConfigs :
         LET b == BootAll([uh |-> [c \in Cores |-> NoHandler],
                           sh |-> [c \in Cores |-> NoHandler], privs |-> <<>>], cfg, 1)
         IN  /\ taic_uhandlers = b.uh
             /\ taic_shandlers = b.sh
             /\ privs = b.privs
             /\ mmio = [i \in 1 .. Len(b.privs) |-> <<>>]
    /\ InitCommon

Running(t) == \E c \in Cores : cur[c] = t

CpuOf(t) == CHOOSE c \in Cores : cur[c] = t

\* The host scheduler puts a task that runs nowhere on an idle core.
Schedule(c, t) ==
    /\ cur[c] = NULL
    /\ ~Running(t)
    /\ cur' = [cur EXCEPT ![c] = t]
    /\ UNCHANGED <<taic_uhandlers, taic_shandlers, privs, mmio, thread, mode, csr, last, frame>>

\* The host scheduler takes a task off its core; only in kernel mode.
Deschedule(c) ==
    /\ cur[c] # NULL
    /\ mode[cur[c]] = "kernel"
    /\ cur' = [cur EXCEPT ![c] = NULL]
    /\ UNCHANGED <<taic_uhandlers, taic_shandlers, privs, mmio, thread, mode, csr, last, frame>>

\* The uintr_enable system call of the task running on core c.
Enable(c, lq_idx) ==
    /\ cur[c] # NULL
    /\ mode[cur[c]] = "kernel"
    /\ thread' = [thread EXCEPT ![cur[c]] = UintrEnable(thread[cur[c]], lq_idx).thread]
    /\ UNCHANGED <<taic_uhandlers, taic_shandlers, privs, mmio, cur, mode, csr, last, frame>>

\* riscv_uintr_set: the return to user mode of the task on core c.
TrapExit(c, regs) ==
    /\ cur[c] # NULL
    /\ mode[cur[c]] = "kernel"
    /\ LET t == cur[c]
           r == UintrSet(c, thread[t], regs, csr[c], mmio)
       IN  /\ csr' = [csr EXCEPT ![c] = r.csr]
           /\ mmio' = r.mmio
           /\ mode' = [mode EXCEPT ![t] = "user"]
    /\ UNCHANGED <<taic_uhandlers, taic_shandlers, privs, thread, cur, last, frame>>

\* riscv_uintr_clear: the task on core c traps from user mode.
TrapEntry(c) ==
    /\ cur[c] # NULL
    /\ mode[cur[c]] = "user"
    /\ LET t == cur[c]
           r == UintrClear(c, thread[t], mmio)
       IN  /\ mmio' = r.mmio
           /\ mode' = [mode EXCEPT ![t] = "kernel"]
    /\ UNCHANGED <<taic_uhandlers, taic_shandlers, privs, thread, cur, csr, last, frame>>

Next ==
    \/ \E c \in Cores, t \in Tasks : Schedule(c, t)
    \/ \E c \in Cores : Deschedule(c)
    \/ \E c \in Cores, lq_idx \in LqIdx : Enable(c, lq_idx)
    \/ \E c \in Cores, regs \in PtRegsSet : TrapExit(c, regs)
    \/ \E c \in Cores : TrapEntry(c)

Spec == Init /\ [][Next]_vars

\* --------------------------------------------- properties of the trap boundary
InUserOn(t, c) == cur[c] = t /\ mode[t] = "user"

LiveInst == {i \in 1 .. Len(privs) : privs[i].live}

\* The owner register of the slot of task t in the window of instance i.
SlotOff(t, i) == TaicUlqOffset(thread[t].lq_idx, privs[i].lq_num)

\* No other enabled task addresses the owner register of t on instance i.
Exclusive(t, i) ==
    \A u \in Tasks \ {t} :
        IsUintrEnabled(thread[u]) => SlotOff(u, i) # SlotOff(t, i)

\* The step is the trap exit (uintr_set) of the task on core c.
SetStep(c) == cur[c] # NULL /\ mode[cur[c]] = "kernel" /\ mode'[cur[c]] = "user"

\* The step is the trap entry (uintr_clear) of the task on core c.
ClearStep(c) == cur[c] # NULL /\ mode[cur[c]] = "user" /\ mode'[cur[c]] = "kernel"

\* The registers of all windows that differ between m1 and m2.
RegsChanged(m1, m2) ==
    {<<i, off>> \in UNION {{i} \X (DOMAIN m1[i] \cup DOMAIN m2[i]) : i \in 1 .. Len(m1)} :
        \/ off \notin DOMAIN m1[i]
        \/ off \notin DOMAIN m2[i]
        \/ m1[i][off] # m2[i][off]}

\* The step is the first uintr_enable of task t.
EnableStep(t) == ~IsUintrEnabled(thread[t]) /\ IsUintrEnabled(thread'[t])

\* Every enabled context addresses owner registers of its own.
AllExclusive ==
    \A t \in Tasks, i \in LiveInst : IsUintrEnabled(thread[t]) => Exclusive(t, i)

\* The owner registers uintr_set and uintr_clear write when run now on core c.
WriteTargets(c) ==
    LET t == cur[c]
        ws == UNION {{UintrClear(c, thread[t], mmio).writes},
                     {UintrSet(c, thread[t], regs, csr[c], mmio).writes : regs \in PtRegsSet}}
    IN  {<<w[k].inst, w[k].off>> : <<w, k>> \in {<<w, k>> \in ws \X {1} : Len(w) >= k}}

\* C1 as stated: the owner register of a slot names the core on which the
\* slot's context is in user mode, and is the sentinel at all other times.
C1_AsStated ==
    /\ \A t \in Tasks, c \in Cores :
           (IsUintrEnabled(thread[t]) /\ InUserOn(t, c))
               => \E i \in LiveInst : Readq(mmio, i, SlotOff(t, i)) = c
    /\ \A i \in LiveInst : \A off \in DOMAIN mmio[i] :
           mmio[i][off] # NOWHERE
               => \E t \in Tasks, c \in Cores :
                      /\ IsUintrEnabled(thread[t])
                      /\ InUserOn(t, c)
                      /\ SlotOff(t, i) = off
                      /\ mmio[i][off] = c

\* C1 amended: for an enabled context whose owner register no other enabled
\* context addresses, the register (sentinel at reset) names the core while
\* the context is in user mode on a core with a user-level handler slot, in
\* the window of that slot's instance, and is the sentinel at all other
\* times and in every other window.
C1_OwnerTracksResidency ==
    /\ \A t \in Tasks, c \in Cores :
           (/\ IsUintrEnabled(thread[t])
            /\ InUserOn(t, c)
            /\ taic_uhandlers[c].present
            /\ Exclusive(t, taic_uhandlers[c].priv))
               => Readq(mmio, taic_uhandlers[c].priv, SlotOff(t, taic_uhandlers[c].priv)) = c
    /\ \A t \in Tasks, i \in LiveInst :
           (/\ IsUintrEnabled(thread[t])
            /\ Exclusive(t, i)
            /\ Readq(mmio, i, SlotOff(t, i)) # NOWHERE)
               => \E c \in Cores :
                      /\ InUserOn(t, c)
                      /\ taic_uhandlers[c] = [present |-> TRUE, priv |-> i]
                      /\ Readq(mmio, i, SlotOff(t, i)) = c

\* C1 witness: a context is in user mode with its core published in one
\* window after it was published and withdrawn in the window of another
\* core's instance (it migrated), while another enabled context is not in
\* user mode.
C1_Witness ==
    \E t \in Tasks, c \in Cores :
        /\ IsUintrEnabled(thread[t])
        /\ InUserOn(t, c)
        /\ taic_uhandlers[c].present
        /\ Exclusive(t, taic_uhandlers[c].priv)
        /\ Readq(mmio, taic_uhandlers[c].priv, SlotOff(t, taic_uhandlers[c].priv)) = c
        /\ \E j \in LiveInst \ {taic_uhandlers[c].priv} :
               /\ SlotOff(t, j) \in DOMAIN mmio[j]
               /\ mmio[j][SlotOff(t, j)] = NOWHERE
        /\ \E u \in Tasks \ {t} : IsUintrEnabled(thread[u]) /\ mode[u] = "kernel"

\* C4: uintr_set for a thread that is not enabled returns with the USIE bit
\* of uie and of uip clear on the executing core and the thread not enabled.
C4_SetDisabledClearsBits ==
    [][\A c \in Cores :
          (SetStep(c) /\ ~IsUintrEnabled(thread[cur[c]]))
              => /\ USIE_BIT \notin csr'[c].uie
                 /\ USIE_BIT \notin csr'[c].uip
                 /\ ~IsUintrEnabled(thread'[cur[c]])]_vars

\* C4 witness: a thread that is not enabled is in user mode on a core whose
\* CSRs were last restored for an enabled thread with both USIE bits set;
\* the other bits of uie survive, both USIE bits are clear.
C4_Witness ==
    \E t \in Tasks, c \in Cores :
        /\ ~IsUintrEnabled(thread[t])
        /\ InUserOn(t, c)
        /\ csr[c].uepc = 1
        /\ csr[c].uie = {UTIE_BIT}
        /\ USIE_BIT \notin csr[c].uip

\* C6: with lq_num = 8 and a context enabled with index 3 on a core with a
\* user-level slot, the register at 0x1000 + 3 * 0x1000 + 0x38 holds the
\* core's id right after uintr_set and the sentinel right after uintr_clear.
C6_EnableThreeScenario ==
    [][\A c \in Cores :
          (/\ cur[c] # NULL
           /\ IsUintrEnabled(thread[cur[c]])
           /\ thread[cur[c]].lq_idx = [hi |-> 0, lo |-> 3]
           /\ taic_uhandlers[c].present
           /\ privs[taic_uhandlers[c].priv].lq_num = 8)
              => LET w == mmio'[taic_uhandlers[c].priv]
                     reg == 4096 + 3 * 4096 + 56
                 IN  /\ SetStep(c) => (reg \in DOMAIN w /\ w[reg] = c)
                     /\ ClearStep(c) => (reg \in DOMAIN w /\ w[reg] = NOWHERE)]_vars

\* C6 witness: the only enabled context, bound to index 3 on an instance
\* with lq_num = 8, is back in kernel mode and the register written for it
\* holds the sentinel.
C6_Witness ==
    \E t \in Tasks, c \in Cores :
        /\ cur[c] = t
        /\ mode[t] = "kernel"
        /\ thread[t] = [is_uintr_enabled |-> TRUE, lq_idx |-> [hi |-> 0, lo |-> 3]]
        /\ \A u \in Tasks \ {t} : ~IsUintrEnabled(thread[u])
        /\ taic_uhandlers[c].present
        /\ privs[taic_uhandlers[c].priv].lq_num = 8
        /\ 16440 \in DOMAIN mmio[taic_uhandlers[c].priv]
        /\ mmio[taic_uhandlers[c].priv][16440] = NOWHERE

\* C13: while every enabled context addresses owner registers of its own, an
\* owner register changes only in a uintr_set or uintr_clear step of the
\* core on which the context bound to it is current, no other enabled
\* context addresses it, and no two cores running enabled contexts can
\* write the same owner register.
C13_OnlyResidentCoreWrites ==
    [][AllExclusive =>
          /\ \A x \in RegsChanged(mmio, mmio') :
                \E c \in Cores :
                    /\ SetStep(c) \/ ClearStep(c)
                    /\ IsUintrEnabled(thread[cur[c]])
                    /\ taic_uhandlers[c] = [present |-> TRUE, priv |-> x[1]]
                    /\ SlotOff(cur[c], x[1]) = x[2]
                    /\ \A u \in Tasks \ {cur[c]} :
                           IsUintrEnabled(thread[u]) => SlotOff(u, x[1]) # x[2]
          /\ \A c1, c2 \in Cores :
                (c1 # c2 /\ cur[c1] # NULL /\ cur[c2] # NULL)
                    => WriteTargets(c1) \cap WriteTargets(c2) = {}]_vars

\* C13 witness: two enabled contexts bound to different registers of one
\* window are in user mode on different cores, each register naming its
\* context's core.
C13_Witness ==
    /\ AllExclusive
    /\ \E t, u \in Tasks, c, d \in Cores, i \in LiveInst :
           /\ t # u /\ c # d
           /\ IsUintrEnabled(thread[t]) /\ IsUintrEnabled(thread[u])
           /\ InUserOn(t, c) /\ InUserOn(u, d)
           /\ taic_uhandlers[c] = [present |-> TRUE, priv |-> i]
           /\ taic_uhandlers[d] = [present |-> TRUE, priv |-> i]
           /\ Readq(mmio, i, SlotOff(t, i)) = c
           /\ Readq(mmio, i, SlotOff(u, i)) = d
           /\ WriteTargets(c) = {<<i, SlotOff(t, i)>>}
           /\ WriteTargets(d) = {<<i, SlotOff(u, i)>>}

C15_UnboundCoreStillRestores ==
    [][\A c \in Cores :
          (/\ cur[c] # NULL
           /\ IsUintrEnabled(thread[cur[c]])
           /\ ~taic_uhandlers[c].present)
              => /\ ClearStep(c) => (mmio' = mmio /\ thread' = thread /\ csr' = csr)
                 /\ SetStep(c) =>
                        /\ mmio' = mmio
                        /\ thread' = thread
                        /\ \E regs \in PtRegsSet :
                               csr'[c] = [sideleg |-> csr[c].sideleg \cup {USIE_BIT},
                                          uie |-> regs.uie,
                                          uip |-> regs.uip \cup csr[c].uip,
                                          uepc |-> regs.uepc,
                                          utvec |-> regs.utvec,
                                          uscratch |-> regs.uscratch]]_vars

\* C15 witness: an enabled context is in user mode on a core without a
\* user-level slot, the core's registers restored from its saved record, and
\* no controller register was ever written.
C15_Witness ==
    \E t \in Tasks, c \in Cores :
        /\ IsUintrEnabled(thread[t])
        /\ InUserOn(t, c)
        /\ ~taic_uhandlers[c].present
        /\ csr[c] = [sideleg |-> {USIE_BIT}, uie |-> {USIE_BIT, UTIE_BIT},
                     uip |-> {USIE_BIT}, uepc |-> 1, utvec |-> 2, uscratch |-> 3]
        /\ \A i \in 1 .. Len(mmio) : mmio[i] = <<>>

\* C16: for a context that is not enabled uintr_clear changes nothing, and
\* uintr_set writes no controller register and leaves the enabled flag and
\* the index alone; the owner registers of all slots stay as they were.
C16_DisabledWritesNothing ==
    [][\A c \in Cores :
          (cur[c] # NULL /\ ~IsUintrEnabled(thread[cur[c]]))
              => /\ ClearStep(c) => (mmio' = mmio /\ thread' = thread /\ csr' = csr)
                 /\ SetStep(c) => (mmio' = mmio /\ thread' = thread)]_vars

\* C16 witness: a context that is not enabled is in user mode on a core with
\* a user-level slot while the owner register of an enabled context still
\* names that context's core.
C16_Witness ==
    \E t \in Tasks, c \in Cores :
        /\ ~IsUintrEnabled(thread[t])
        /\ InUserOn(t, c)
        /\ taic_uhandlers[c].present
        /\ thread[t].lq_idx = [hi |-> 0, lo |-> 0]
        /\ \E u \in Tasks \ {t}, d \in Cores, i \in LiveInst :
               /\ IsUintrEnabled(thread[u])
               /\ InUserOn(u, d)
               /\ Readq(mmio, i, SlotOff(u, i)) = d

\* C19 as stated: two contexts enabled with distinct index values address
\* distinct owner registers in every window.
C19_AsStated ==
    \A t, u \in Tasks :
        (/\ IsUintrEnabled(thread[t])
         /\ IsUintrEnabled(thread[u])
         /\ thread[t].lq_idx # thread[u].lq_idx)
            => \A i \in LiveInst : SlotOff(t, i) # SlotOff(u, i)

\* C19 amended: two contexts enabled with distinct index values whose low
\* halves are below the local-queue capacity of an instance address distinct
\* owner registers in its window, and a uintr_set or uintr_clear of the one
\* leaves the owner register of the other as it was.
C19_ValidIndexesDistinct ==
    [][\A t, u \in Tasks : \A i \in LiveInst :
          (/\ IsUintrEnabled(thread[t])
           /\ IsUintrEnabled(thread[u])
           /\ thread[t].lq_idx # thread[u].lq_idx
           /\ IdxLow(thread[t].lq_idx) < privs[i].lq_num
           /\ IdxLow(thread[u].lq_idx) < privs[i].lq_num)
              => /\ SlotOff(t, i) # SlotOff(u, i)
                 /\ (\E c \in Cores : cur[c] = t /\ (SetStep(c) \/ ClearStep(c)))
                        => Readq(mmio', i, SlotOff(u, i)) = Readq(mmio, i, SlotOff(u, i))]_vars

\* C19 witness: two contexts enabled with distinct indexes of equal low half
\* are in user mode on different cores of one instance, each register naming
\* its context's core.
C19_Witness ==
    \E t, u \in Tasks, c, d \in Cores, i \in LiveInst :
        /\ IsUintrEnabled(thread[t]) /\ IsUintrEnabled(thread[u])
        /\ IdxHigh(thread[t].lq_idx) # IdxHigh(thread[u].lq_idx)
        /\ IdxLow(thread[t].lq_idx) = IdxLow(thread[u].lq_idx)
        /\ IdxLow(thread[t].lq_idx) < privs[i].lq_num
        /\ InUserOn(t, c) /\ InUserOn(u, d)
        /\ taic_uhandlers[c] = [present |-> TRUE, priv |-> i]
        /\ taic_uhandlers[d] = [present |-> TRUE, priv |-> i]
        /\ mmio[i] = (SlotOff(t, i) :> c) @@ (SlotOff(u, i) :> d)

\* C20: once a context is enabled no step disables it or changes the index
\* it is bound to.
C20_EnablementMonotonic ==
    [][\A t \in Tasks : IsUintrEnabled(thread[t]) => thread'[t] = thread[t]]_vars

\* C20 witness: a context bound to a non-zero index is still enabled and
\* bound to it after its owner register was published and withdrawn, while
\* the other context is enabled with another index.
C20_Witness ==
    \E t \in Tasks, i \in LiveInst :
        /\ thread[t] = [is_uintr_enabled |-> TRUE, lq_idx |-> [hi |-> 1, lo |-> 3]]
        /\ mode[t] = "kernel"
        /\ SlotOff(t, i) \in DOMAIN mmio[i]
        /\ mmio[i][SlotOff(t, i)] = NOWHERE
        /\ \E u \in Tasks \ {t} :
               IsUintrEnabled(thread[u]) /\ thread[u].lq_idx # thread[t].lq_idx

\* ------------------------------------------------- the entry points, observed
\* SpecApi calls the entry points one at a time, up to MaxCalls calls, and
\* records in last what the call was given, returned and wrote.
Calls == IF last.op = "none" THEN 0 ELSE last.n

\* uintr_enable called by task t.
CallEnable(t, lq_idx) ==
    /\ Calls < MaxCalls
    /\ LET r == UintrEnable(thread[t], lq_idx)
       IN  /\ thread' = [thread EXCEPT ![t] = r.thread]
           /\ last' = [op |-> "enable", n |-> Calls + 1, task |-> t, arg |-> lq_idx,
                       was |-> thread[t], ret |-> r.ret, writes |-> <<>>]
    /\ UNCHANGED <<taic_uhandlers, taic_shandlers, privs, mmio, cur, mode, csr, frame>>

\* taic_ulq_write_cpuid called on core c.
CallPublish(c, lq_idx, hartid) ==
    /\ Calls < MaxCalls
    /\ LET r == TaicUlqWriteCpuid(c, lq_idx, hartid, mmio)
       IN  /\ mmio' = r.mmio
           /\ last' = [op |-> "publish", n |-> Calls + 1, cpu |-> c, arg |-> lq_idx,
                       val |-> hartid, was |-> mmio, ret |-> r.ret, writes |-> r.writes]
    /\ UNCHANGED <<taic_uhandlers, taic_shandlers, privs, thread, cur, mode, csr, frame>>

\* taic_free_lq called on core c.
CallRelease(c, lq_idx) ==
    /\ Calls < MaxCalls
    /\ LET r == TaicFreeLq(c, lq_idx, mmio)
       IN  /\ mmio' = r.mmio
           /\ last' = [op |-> "free", n |-> Calls + 1, cpu |-> c, arg |-> lq_idx,
                       was |-> mmio, ret |-> r.ret, writes |-> r.writes]
    /\ UNCHANGED <<taic_uhandlers, taic_shandlers, privs, thread, cur, mode, csr, frame>>

NextApi ==
    \/ \E t \in Tasks, lq_idx \in LqIdx : CallEnable(t, lq_idx)
    \/ \E c \in Cores : \E lq_idx \in LqIdx, v \in {c, NOWHERE} : CallPublish(c, lq_idx, v)
    \/ \E c \in Cores, lq_idx \in LqIdx : CallRelease(c, lq_idx)

SpecApi == Init /\ [][NextApi]_vars

\* ------------------------------------------------ properties of the entry points
\* C2: uintr_enable on an enabled thread returns 0 and leaves the enabled
\* flag and the bound index as the first call set them; the first call
\* binds the index it was given.
C2_EnableIdempotent ==
    last.op = "enable" =>
        /\ last.ret = 0
        /\ IsUintrEnabled(last.was) => thread[last.task] = last.was
        /\ ~IsUintrEnabled(last.was)
               => thread[last.task] = [is_uintr_enabled |-> TRUE, lq_idx |-> last.arg]

\* C2 witness: a second uintr_enable, with another index, on an enabled thread.
C2_Witness ==
    /\ last.op = "enable"
    /\ last.was.is_uintr_enabled
    /\ last.arg # last.was.lq_idx

\* C5: a successful publish writes the given value at byte offset
\* 0x1000 + (idx_high * lq_num + idx_low) * 0x1000 + 0x38 of the window of
\* the instance of the calling core's user-level slot, and nowhere else.
C5_PublishOffset ==
    (last.op = "publish" /\ taic_uhandlers[last.cpu].present) =>
        LET i == taic_uhandlers[last.cpu].priv
            off == 4096 + (last.arg.hi * privs[i].lq_num + last.arg.lo) * 4096 + 56
        IN  /\ last.writes = <<[inst |-> i, off |-> off, val |-> last.val]>>
            /\ off \in DOMAIN mmio[i]
            /\ mmio[i][off] = last.val
            /\ RegsChanged(last.was, mmio) \subseteq {<<i, off>>}

\* C5 witness: a publish with both halves of the index non-zero and the low
\* half below the capacity of the instance.
C5_Witness ==
    /\ last.op = "publish"
    /\ taic_uhandlers[last.cpu].present
    /\ last.arg.hi > 0
    /\ last.arg.lo > 0
    /\ last.arg.lo < privs[taic_uhandlers[last.cpu].priv].lq_num
    /\ last.ret = 0

\* C7: on a core without a user-level slot publish and release return a
\* negative status and write no register; with the slot present they return
\* 0 after one register write.
C7_UnboundCoreFails ==
    last.op \in {"publish", "free"} =>
        IF taic_uhandlers[last.cpu].present
        THEN /\ last.ret = 0
             /\ Len(last.writes) = 1
             /\ last.writes[1].inst = taic_uhandlers[last.cpu].priv
             /\ RegsChanged(last.was, mmio) \subseteq {<<last.writes[1].inst, last.writes[1].off>>}
        ELSE /\ last.ret < 0
             /\ last.writes = <<>>
             /\ mmio = last.was

\* C7 witness: release failed on a core that has only a supervisor-level slot.
C7_Witness ==
    /\ last.op = "free"
    /\ ~taic_uhandlers[last.cpu].present
    /\ taic_shandlers[last.cpu].present
    /\ last.ret = -EINVAL
\* ------------------------------------------- uintr_set, statement by statement
\* The statements of uintr_set in program order: line 55, then lines 59-60
\* for a thread that is not enabled, lines 63-75 for an enabled one.
UintrSetProgram_RestoreFirst(enabled) ==
    IF enabled
    THEN <<"sideleg", "uie", "publish", "uepc", "utvec", "uscratch", "rduip", "wruip">>
    ELSE <<"sideleg", "clruie", "clruip">>

UintrSetProgram(enabled) ==
    IF enabled
    THEN <<"sideleg", "publish", "uie", "uepc", "utvec", "uscratch", "rduip", "wruip">>
    ELSE <<"sideleg", "clruie", "clruip">>

\* The effect of one statement on the CSRs of the core, the windows and the
\* local variable uip.
UintrSetStmt(stmt, c, th, regs, uip, cs, m) ==
    CASE stmt = "sideleg"  -> [csr |-> [cs EXCEPT !.sideleg = @ \cup IE_USIE], mmio |-> m, uip |-> uip]
      [] stmt = "clruie"   -> [csr |-> [cs EXCEPT !.uie = @ \ IE_USIE], mmio |-> m, uip |-> uip]
      [] stmt = "clruip"   -> [csr |-> [cs EXCEPT !.uip = @ \ IE_USIE], mmio |-> m, uip |-> uip]
      [] stmt = "publish"  -> [csr |-> cs, mmio |-> TaicUlqWriteCpuid(c, th.lq_idx, c, m).mmio,
                               uip |-> uip]
      [] stmt = "uie"      -> [csr |-> [cs EXCEPT !.uie = regs.uie], mmio |-> m, uip |-> uip]
      [] stmt = "uepc"     -> [csr |-> [cs EXCEPT !.uepc = regs.uepc], mmio |-> m, uip |-> uip]
      [] stmt = "utvec"    -> [csr |-> [cs EXCEPT !.utvec = regs.utvec], mmio |-> m, uip |-> uip]
      [] stmt = "uscratch" -> [csr |-> [cs EXCEPT !.uscratch = regs.uscratch], mmio |-> m,
                               uip |-> uip]
      [] stmt = "rduip"    -> [csr |-> cs, mmio |-> m, uip |-> cs.uip]
      [] stmt = "wruip"    -> [csr |-> [cs EXCEPT !.uip = regs.uip \cup uip], mmio |-> m,
                               uip |-> uip]

\* The index the tasks of SpecStep enable.
StepLqIdx == {[hi |-> 0, lo |-> 3]}

InFlight == frame.k > 0

\* The statements of the uintr_set in progress.
FrameProgram == UintrSetProgram(IsUintrEnabled(thread[cur[frame.cpu]]))

\* The trap-return path enters uintr_set on core c.
SetBegin(c, regs) ==
    /\ ~InFlight
    /\ cur[c] # NULL
    /\ mode[cur[c]] = "kernel"
    /\ frame' = [k |-> 1, cpu |-> c, regs |-> regs, uip |-> {}, latched |-> FALSE,
                 done |-> <<>>]
    /\ UNCHANGED <<taic_uhandlers, taic_shandlers, privs, mmio, thread, cur, mode, csr, last>>

\* The next statement of the uintr_set in progress.
SetStmt ==
    /\ InFlight
    /\ frame.k <= Len(FrameProgram)
    /\ LET c == frame.cpu
           stmt == FrameProgram[frame.k]
           r == UintrSetStmt(stmt, c, thread[cur[c]], frame.regs, frame.uip, csr[c], mmio)
       IN  /\ csr' = [csr EXCEPT ![c] = r.csr]
           /\ mmio' = r.mmio
           /\ frame' = [frame EXCEPT !.k = @ + 1, !.uip = r.uip, !.done = Append(@, stmt)]
    /\ UNCHANGED <<taic_uhandlers, taic_shandlers, privs, thread, cur, mode, last>>

\* uintr_set returns and the task is in user mode.
SetReturn ==
    /\ InFlight
    /\ frame.k > Len(FrameProgram)
    /\ mode' = [mode EXCEPT ![cur[frame.cpu]] = "user"]
    /\ frame' = NoFrame
    /\ UNCHANGED <<taic_uhandlers, taic_shandlers, privs, mmio, thread, cur, csr, last>>

\* The hardware latches a user software interrupt in uip of the core that
\* executes uintr_set.
HwLatch ==
    /\ InFlight
    /\ USIE_BIT \notin csr[frame.cpu].uip
    /\ csr' = [csr EXCEPT ![frame.cpu].uip = @ \cup IE_USIE]
    /\ frame' = [frame EXCEPT !.latched = TRUE]
    /\ UNCHANGED <<taic_uhandlers, taic_shandlers, privs, mmio, thread, cur, mode, last>>

NextStep ==
    \/ ~InFlight /\ \E c \in Cores, t \in Tasks : Schedule(c, t)
    \/ ~InFlight /\ \E c \in Cores : Deschedule(c)
    \/ ~InFlight /\ \E c \in Cores, lq_idx \in StepLqIdx : Enable(c, lq_idx)
    \/ ~InFlight /\ \E c \in Cores : TrapEntry(c)
    \/ \E c \in Cores, regs \in PtRegsSet : SetBegin(c, regs)
    \/ SetStmt
    \/ SetReturn
    \/ HwLatch

SpecStep == Init /\ [][NextStep]_vars

\* ------------------------------------------------- properties of the statements
\* The position of a statement among those executed, 0 if it has not run.
RECURSIVE DonePos(_, _)
DonePos(stmt, k) ==
    IF k = 0 THEN 0
    ELSE IF frame.done[k] = stmt /\ DonePos(stmt, k - 1) = 0 THEN k
    ELSE DonePos(stmt, k - 1)

Ran(stmt) == DonePos(stmt, Len(frame.done)) > 0

\* C11: in a uintr_set in progress the first statement executed sets the
\* delegation bit, for enabled and not enabled threads alike; for an enabled
\* thread the restore of uie has run only after the publish of the owner,
\* so once uie is restored the owner register (on a core with a user-level
\* slot) names the core.
C11_DelegateThenPublishThenRestore ==
    InFlight =>
        LET c == frame.cpu
            t == cur[c]
            n == Len(frame.done)
        IN  /\ n > 0 => (frame.done[1] = "sideleg" /\ USIE_BIT \in csr[c].sideleg)
            /\ (IsUintrEnabled(thread[t]) /\ Ran("uie"))
                   => /\ Ran("publish")
                      /\ DonePos("publish", n) < DonePos("uie", n)
                      /\ csr[c].uie = frame.regs.uie
                      /\ taic_uhandlers[c].present
                             => Readq(mmio, taic_uhandlers[c].priv,
                                      SlotOff(t, taic_uhandlers[c].priv)) = c
            /\ (IsUintrEnabled(thread[t]) /\ Ran("publish") /\ ~Ran("uie"))
                   => (taic_uhandlers[c].present
                           => Readq(mmio, taic_uhandlers[c].priv,
                                    SlotOff(t, taic_uhandlers[c].priv)) = c)

\* C11 witness: a uintr_set for an enabled thread has set the delegation
\* bit and published the owner, and has not yet restored uie, which still
\* holds what the previous user of the core left.
C11_Witness ==
    /\ InFlight
    /\ IsUintrEnabled(thread[cur[frame.cpu]])
    /\ frame.done = <<"sideleg", "publish">>
    /\ taic_uhandlers[frame.cpu].present
    /\ Readq(mmio, taic_uhandlers[frame.cpu].priv,
             SlotOff(cur[frame.cpu], taic_uhandlers[frame.cpu].priv)) = frame.cpu
    /\ USIE_BIT \in csr[frame.cpu].sideleg
    /\ frame.regs.uie = {USIE_BIT, UTIE_BIT}
    /\ csr[frame.cpu].uie = {}

\* C12: when uintr_set for an enabled thread is about to return, the USIE
\* bit of uip is set if it is set in the saved record or the hardware
\* latched it while the routine ran.
C12_NoPendingLost ==
    (/\ InFlight
     /\ frame.k > Len(FrameProgram)
     /\ IsUintrEnabled(thread[cur[frame.cpu]])
     /\ (USIE_BIT \in frame.regs.uip \/ frame.latched))
        => USIE_BIT \in csr[frame.cpu].uip

====
